---- MODULE Spec2Model ----
(***************************************************************************)
(* Party Planner API (party_backend/src/api): the four tables, the helpers  *)
(* of deps.py and the route handlers of main.py.                            *)
(*                                                                          *)
(* A handler's arguments are what FastAPI hands it: a body that passed the  *)
(* pydantic schema, and the `user` row of the caller.  `last` records the   *)
(* request that completed last: the handler, the caller, the event, the    *)
(* status code and body of the response and, where a property reads them,   *)
(* the request body and the handler's locals.                               *)
(*                                                                          *)
(* Each handler is modelled twice.  Served alone, with no other request in  *)
(* flight, it is one step from its first query to its return or its         *)
(* HTTPException: Spec, SpecAuth.  Served concurrently, it is one step per  *)
(* database round trip (query, commit, refresh), and the steps of the       *)
(* requests in flight interleave: SpecConcurrent, SpecSignupConcurrent.     *)
(* `inflight` holds the requests in flight, `started` counts them.          *)
(*                                                                          *)
(* An e-mail address local@domain is the pair <<local, domain>>.            *)
(***************************************************************************)
EXTENDS Integers, Sequences, FiniteSets, TLC

VARIABLES users, events, guests, rsvps, last, inflight, started

vars == <<users, events, guests, rsvps, last, inflight, started>>

(***************************************************************************)
(* Bounds of the model.                                                     *)
(***************************************************************************)
MaxEvents == 2
MaxGuests == 2
MaxRsvps == 2
MaxInviteLen == 2
MaxInflight == 2
MaxRequests == 6

(***************************************************************************)
(* Values requests are drawn from.                                          *)
(***************************************************************************)
None == "None"

Usernames == {"alice", "bob"}
Emails == {<<"alice", "x.com">>, <<"bob", "x.com">>}
Passwords == {"abc", "secret1", "hunter22"}
LoginPasswords == {"secret1", "hunter22"}
Titles == {"Party"}
Descriptions == {None}
Dates == {"2030-01-01T18:00"}
Locations == {"Home"}
StatusInputs == {"accepted", "banana"}
\* (skip, limit) of list_events: the defaults, and a second page of one.
Pages == {<<0, 50>>, <<1, 1>>}

\* The statuses the Field description of RSVPBase and the RSVP model name.
RSVPStatuses == {"accepted", "declined", "maybe"}

(***************************************************************************)
(* schemas.py: the request bodies the handlers receive.                     *)
(***************************************************************************)
MinPasswordLength == 6

UserCreate ==
    [username : Usernames, email : Emails,
     password : {p \in Passwords : Len(p) >= MinPasswordLength}]

\* The two accounts that use the event, guest and RSVP routes.
Accounts ==
    {u \in UserCreate : u.username = u.email[1] /\ u.password = "secret1"}

EventCreate ==
    [title : Titles, description : Descriptions, date : Dates, location : Locations]

\* EventUpdate.dict(exclude_unset=True): the fields the request set.
EventUpdate == {<<>>, [title |-> "Party", location |-> "Home"]}

GuestCreate == {[name |-> "Ally", email |-> <<"alice", "x.com">>]}

InviteEmails == {<<"bob", "x.com">>}

\* status is a plain str: the schema accepts any string.
RSVPCreate == [status : StatusInputs]

InviteRequest ==
    [guest_emails : UNION {[1..n -> InviteEmails] : n \in 0..MaxInviteLen}]

UserOut(u) == [id |-> u.id, username |-> u.username, email |-> u.email]

GuestOut(g) == [id |-> g.id, event_id |-> g.event_id, name |-> g.name, email |-> g.email]

(***************************************************************************)
(* Primary keys: Column(Integer, primary_key=True) on every table; the      *)
(* database numbers a new row one past the highest id of the table, so ids  *)
(* grow in the order of insertion.                                          *)
(***************************************************************************)
MaxId(rows) ==
    IF rows = {} THEN 0
    ELSE CHOOSE m \in {r.id : r \in rows} : \A r \in rows : r.id <= m

NextId(rows) == MaxId(rows) + 1

(***************************************************************************)
(* deps.py: password and token helpers, the authorization gate.             *)
(***************************************************************************)
SECRET_KEY == "temporary_secret"
ALGORITHM == "HS256"

\* sha256(password).hexdigest(): deterministic, unsalted, one-way.
hash_password(password) == <<"sha256", password>>

verify_password(plain_password, hashed_password) ==
    hash_password(plain_password) = hashed_password

\* JSON values of a token's claims keep their type.
JInt(n) == <<"int", n>>

\* jwt.encode(data, SECRET_KEY, algorithm=ALGORITHM): the claims, signed.
create_access_token(data) ==
    [claims |-> data, key |-> SECRET_KEY, alg |-> ALGORITHM]

JWTError == [error |-> "JWTError"]

\* jwt.decode(token, SECRET_KEY, algorithms=[ALGORITHM]): the signature is
\* verified, then the registered claims: a "sub" that is not a string is
\* rejected (JWTClaimsError, a JWTError).
jwt_decode(token, key, algorithms) ==
    IF token.key # key \/ token.alg \notin algorithms THEN JWTError
    ELSE IF "sub" \in DOMAIN token.claims /\ token.claims.sub[1] # "str" THEN JWTError
    ELSE token.claims

\* The user row the gate resolves the token to, as a set of at most one row;
\* {} stands for credentials_exception (401).
get_current_user(token) ==
    LET payload == jwt_decode(token, SECRET_KEY, {ALGORITHM})
    IN  IF payload = JWTError THEN {}
        ELSE IF "sub" \notin DOMAIN payload THEN {}
        ELSE {u \in users : u.id = payload.sub[2]}

(***************************************************************************)
(* The state after init_db: four empty tables, nothing served yet.          *)
(***************************************************************************)
Idle == [pc |-> "idle"]

Init ==
    /\ users = {}
    /\ events = {}
    /\ guests = {}
    /\ rsvps = {}
    /\ last = [op |-> "init", code |-> 0, user |-> 0, event_id |-> 0,
               req |-> None, body |-> None]
    /\ inflight = [s \in 1..MaxInflight |-> Idle]
    /\ started = 0

Response(op, code, user, event_id, req, body) ==
    [op |-> op, code |-> code, user |-> user, event_id |-> event_id,
     req |-> req, body |-> body]

(***************************************************************************)
(* main.py: auth routes.                                                    *)
(***************************************************************************)
\* The rows signup's query finds: the username or the e-mail is taken.
SignupExisting(user_data) ==
    {u \in users : u.username = user_data.username \/ u.email = user_data.email}

signup(user_data) ==
    /\ IF SignupExisting(user_data) # {}
       THEN /\ users' = users
            /\ last' = Response("signup", 400, 0, 0, user_data,
                                "Username or Email already exists.")
       ELSE LET user == [id |-> NextId(users),
                         username |-> user_data.username,
                         email |-> user_data.email,
                         hashed_password |-> hash_password(user_data.password)]
            IN  /\ users' = users \cup {user}
                /\ last' = Response("signup", 200, 0, 0, user_data, UserOut(user))
    /\ UNCHANGED <<events, guests, rsvps, inflight, started>>

login(username, password) ==
    LET found == {u \in users : u.username = username}
        form_data == [username |-> username, password |-> password]
    IN  /\ \/ /\ found = {}
              /\ last' = Response("login", 401, 0, 0, form_data,
                                  "Incorrect username or password")
           \/ \E user \in found :
                IF ~verify_password(password, user.hashed_password)
                THEN last' = Response("login", 401, 0, 0, form_data,
                                      "Incorrect username or password")
                ELSE last' = Response("login", 200, 0, 0, form_data,
                                      [access_token |-> create_access_token([sub |-> JInt(user.id)]),
                                       token_type |-> "bearer"])
        /\ UNCHANGED <<users, events, guests, rsvps, inflight, started>>

(***************************************************************************)
(* main.py: event routes.                                                   *)
(***************************************************************************)
EventOut(e) == e

\* Mutant of OwnedEvent: the lookup forgets the owner.
OwnedEvent_AnyOwner(event_id, user) ==
    {e \in events : e.id = event_id}

\* filter(Event.id == event_id, Event.owner_id == user.id): the ownership-
\* scoped lookup of get, update, delete, add_guest and invite_guests.
OwnedEvent(event_id, user) ==
    {e \in events : e.id = event_id /\ e.owner_id = user.id}

create_event(user, event_data) ==
    LET event == [id |-> NextId(events),
                  title |-> event_data.title,
                  description |-> event_data.description,
                  date |-> event_data.date,
                  location |-> event_data.location,
                  owner_id |-> user.id]
    IN  /\ NextId(events) <= MaxEvents
        /\ events' = events \cup {event}
        /\ last' = Response("create_event", 200, user.id, event.id, None,
                            EventOut(event))
        /\ UNCHANGED <<users, guests, rsvps, inflight, started>>

\* filter(owner_id == user.id).offset(skip).limit(limit).all(): the query
\* names no order, so any `limit` of the rows left after any `skip` of them.
OffsetLimit(rows, skip, limit) ==
    LET left == IF Cardinality(rows) > skip THEN Cardinality(rows) - skip ELSE 0
        n == IF left < limit THEN left ELSE limit
    IN  {page \in SUBSET rows : Cardinality(page) = n}

list_events(user, skip, limit) ==
    /\ \E page \in OffsetLimit({e \in events : e.owner_id = user.id}, skip, limit) :
         last' = Response("list_events", 200, user.id, 0, None,
                          {EventOut(e) : e \in page})
    /\ UNCHANGED <<users, events, guests, rsvps, inflight, started>>

get_event(user, event_id) ==
    /\ \/ /\ OwnedEvent(event_id, user) = {}
          /\ last' = Response("get_event", 404, user.id, event_id, None,
                              "Event not found")
       \/ \E event \in OwnedEvent(event_id, user) :
            last' = Response("get_event", 200, user.id, event_id, None,
                             EventOut(event))
    /\ UNCHANGED <<users, events, guests, rsvps, inflight, started>>

\* for field, value in event_update.dict(exclude_unset=True).items():
\*     setattr(event, field, value)
ApplyUpdate(event, event_update) ==
    [f \in DOMAIN event |->
        IF f \in DOMAIN event_update THEN event_update[f] ELSE event[f]]

update_event(user, event_id, event_update) ==
    /\ \/ /\ OwnedEvent(event_id, user) = {}
          /\ events' = events
          /\ last' = Response("update_event", 404, user.id, event_id, None,
                              "Event not found")
       \/ \E event \in OwnedEvent(event_id, user) :
            LET updated == ApplyUpdate(event, event_update)
            IN  /\ events' = (events \ {event}) \cup {updated}
                /\ last' = Response("update_event", 200, user.id, event_id,
                                    None, EventOut(updated))
    /\ UNCHANGED <<users, guests, rsvps, inflight, started>>

\* models.py: Event.guests and Event.rsvps, cascade="all, delete-orphan":
\* the rows db.delete(event) deletes with the event.
EventGuests(event) == {g \in guests : g.event_id = event.id}

\* Mutant of EventRsvps: the relationship has no delete cascade.
EventRsvps_NoCascade(event) == {}

EventRsvps(event) == {r \in rsvps : r.event_id = event.id}

delete_event(user, event_id) ==
    /\ \/ /\ OwnedEvent(event_id, user) = {}
          /\ UNCHANGED <<events, guests, rsvps>>
          /\ last' = Response("delete_event", 404, user.id, event_id, None,
                              "Event not found")
       \/ \E event \in OwnedEvent(event_id, user) :
            /\ events' = events \ {event}
            /\ guests' = guests \ EventGuests(event)
            /\ rsvps' = rsvps \ EventRsvps(event)
            /\ last' = Response("delete_event", 200, user.id, event_id, None,
                                [detail |-> "Event deleted"])
    /\ UNCHANGED <<users, inflight, started>>

(***************************************************************************)
(* main.py: guest and batch-invite routes.                                  *)
(***************************************************************************)
add_guest(user, event_id, guest) ==
    /\ \/ /\ OwnedEvent(event_id, user) = {}
          /\ guests' = guests
          /\ last' = Response("add_guest", 404, user.id, event_id, None,
                              "Event not found")
       \/ \E event \in OwnedEvent(event_id, user) :
            LET new_guest == [id |-> NextId(guests),
                              event_id |-> event.id,
                              name |-> guest.name,
                              email |-> guest.email,
                              invited_by_user_id |-> user.id,
                              responded |-> FALSE]
            IN  /\ NextId(guests) <= MaxGuests
                /\ guests' = guests \cup {new_guest}
                /\ last' = Response("add_guest", 200, user.id, event_id, None,
                                    GuestOut(new_guest))
    /\ UNCHANGED <<users, events, rsvps, inflight, started>>

\* database.py: sessionmaker(autocommit=False, autoflush=False): a query does
\* not flush the session first, so it sees the committed rows only.
autoflush == FALSE

\* email.split('@')[0]
DefaultName(email) == email[1]

\* The guest rows the lookup inside the loop finds: committed rows, and the
\* rows added earlier in the same request only when the session autoflushes.
InviteLookup(event_id, email, pending) ==
    {g \in guests : g.event_id = event_id /\ g.email = email}
    \cup (IF autoflush
          THEN {pending[i] : i \in {j \in 1..Len(pending) : pending[j].email = email}}
          ELSE {})

\* The loop over invite_request.guest_emails: the guests db.add()ed, in order.
RECURSIVE InviteLoop(_, _, _, _)
InviteLoop(event_id, user, guest_emails, pending) ==
    IF guest_emails = <<>> THEN pending
    ELSE LET email == Head(guest_emails)
             new_guest == [event_id |-> event_id,
                           name |-> DefaultName(email),
                           email |-> email,
                           invited_by_user_id |-> user.id,
                           responded |-> FALSE]
         IN  IF InviteLookup(event_id, email, pending) = {}
             THEN InviteLoop(event_id, user, Tail(guest_emails),
                             Append(pending, new_guest))
             ELSE InviteLoop(event_id, user, Tail(guest_emails), pending)

\* db.commit(): the pending rows are inserted in the order they were added.
WithId(row, id) ==
    [f \in DOMAIN row \cup {"id"} |-> IF f = "id" THEN id ELSE row[f]]

invite_guests(user, event_id, invite_request) ==
    /\ \/ /\ OwnedEvent(event_id, user) = {}
          /\ guests' = guests
          /\ last' = Response("invite_guests", 404, user.id, event_id,
                              None, "Event not found")
       \/ /\ OwnedEvent(event_id, user) # {}
          /\ LET pending == InviteLoop(event_id, user, invite_request.guest_emails, <<>>)
                 created == [i \in 1..Len(pending) |->
                                WithId(pending[i], MaxId(guests) + i)]
             IN  /\ MaxId(guests) + Len(pending) <= MaxGuests
                 /\ guests' = guests \cup {created[i] : i \in 1..Len(created)}
                 /\ last' = Response("invite_guests", 200, user.id, event_id,
                                     invite_request,
                                     [i \in 1..Len(created) |-> GuestOut(created[i])])
    /\ UNCHANGED <<users, events, rsvps, inflight, started>>

(***************************************************************************)
(* main.py: RSVP route.                                                     *)
(***************************************************************************)
RSVPOut(r) == r

\* filter(Guest.event_id == event_id, Guest.email == user.email)
InvitedGuest(event_id, user) ==
    {g \in guests : g.event_id = event_id /\ g.email = user.email}

\* Mutant of RsvpAllowed: the guest lookup forgets the caller's e-mail.
RsvpAllowed_AnyGuest(event, user) ==
    {g \in guests : g.event_id = event.id} # {} \/ event.owner_id = user.id

\* not (not guest and event.owner_id != user.id)
RsvpAllowed(event, user) ==
    InvitedGuest(event.id, user) # {} \/ event.owner_id = user.id

\* Mutant of RsvpLookup: the lookup forgets the caller.
RsvpLookup_AnyUser(event_id, user) ==
    {r \in rsvps : r.event_id = event_id}

\* filter(RSVP.event_id == event_id, RSVP.user_id == user.id)
RsvpLookup(event_id, user) ==
    {r \in rsvps : r.event_id = event_id /\ r.user_id = user.id}

\* .first() of a query that names no order: none, or any one row of it.
First(rows) == IF rows = {} THEN {{}} ELSE {{r} : r \in rows}

\* The row the handler writes: a new one when the lookup found none, else
\* the row it found with the status overwritten.
RsvpWritten(user, event_id, rsvp, rsvp_obj) ==
    IF rsvp_obj = {}
    THEN [id |-> NextId(rsvps), event_id |-> event_id, user_id |-> user.id,
          status |-> rsvp.status]
    ELSE LET old == CHOOSE r \in rsvp_obj : TRUE
         IN  [old EXCEPT !.status = rsvp.status]

\* db.add / assignment, db.commit(), db.refresh(rsvp_obj)
RsvpWrite(user, event_id, rsvp, rsvp_obj) ==
    LET row == RsvpWritten(user, event_id, rsvp, rsvp_obj)
    IN  /\ row.id <= MaxRsvps
        /\ rsvps' = {r \in rsvps : r.id # row.id} \cup {row}
        /\ last' = Response("rsvp_to_event", 200, user.id, event_id,
                            [status |-> rsvp.status, rsvp_obj |-> rsvp_obj],
                            RSVPOut(row))

rsvp_to_event(user, event_id, rsvp) ==
    /\ \/ /\ {e \in events : e.id = event_id} = {}
          /\ rsvps' = rsvps
          /\ last' = Response("rsvp_to_event", 404, user.id, event_id, None,
                              "Event not found")
       \/ \E event \in {e \in events : e.id = event_id} :
            IF ~RsvpAllowed(event, user)
            THEN /\ rsvps' = rsvps
                 /\ last' = Response("rsvp_to_event", 403, user.id, event_id, None,
                                     "Must be invited or owner")
            ELSE \E rsvp_obj \in First(RsvpLookup(event_id, user)) :
                    RsvpWrite(user, event_id, rsvp, rsvp_obj)
    /\ UNCHANGED <<users, events, guests, inflight, started>>

(***************************************************************************)
(* Requests served concurrently.  FastAPI runs each handler in a worker     *)
(* thread with a Session of its own (deps.py get_db), so the handlers of    *)
(* two requests interleave between their database round trips.  Below, each *)
(* handler that makes more than one round trip is a chain of steps, one per *)
(* round trip: a query reads the rows committed when it runs, a commit      *)
(* writes what the session holds, a refresh reads the row back.  A request  *)
(* in flight occupies a slot of `inflight`, which holds its position and    *)
(* its locals.  An exception the handler does not catch is answered 500.    *)
(***************************************************************************)
\* A request takes the first free slot.
Begin(slot) ==
    /\ inflight[slot] = Idle
    /\ \A s \in 1..(slot - 1) : inflight[s] # Idle
    /\ started < MaxRequests
    /\ started' = started + 1

\* The next round trip of the request in the slot.
Step(slot, pc) ==
    /\ inflight[slot].pc = pc
    /\ started' = started

\* return / raise HTTPException: the response goes out, the slot is free.
Finish(slot, response) ==
    /\ last' = response
    /\ inflight' = [inflight EXCEPT ![slot] = Idle]

\* The handler goes on to its next round trip.
Goto(slot, locals) ==
    /\ inflight' = [inflight EXCEPT ![slot] = locals]
    /\ last' = last

\* IntegrityError, StaleDataError, InvalidRequestError: not caught.
ServerError(op, user, event_id) ==
    Response(op, 500, user, event_id, None, "Internal Server Error")

\* The row of a primary key, as a set of at most one row.
ById(rows, id) == {r \in rows : r.id = id}

\* The columns a flush writes for a loaded row: those assigned a value other
\* than the one loaded.
NetChange(loaded, assigned) ==
    {f \in DOMAIN assigned : assigned[f] # loaded[f]}

\* UPDATE ... SET the changed columns WHERE id = loaded.id
UpdateRow(rows, loaded, assigned) ==
    {IF r.id = loaded.id
     THEN [f \in DOMAIN r |->
             IF f \in NetChange(loaded, assigned) THEN assigned[f] ELSE r[f]]
     ELSE r : r \in rows}

\* models.py: unique=True on users.username and users.email: the INSERT
\* fails when a committed row has the username or the e-mail.
UniqueViolation(user) ==
    \E u \in users : u.username = user.username \/ u.email = user.email

\* ForeignKey("events.id"): whether the database of DATABASE_URL enforces
\* it depends on the engine; an enforcing one rejects a row that references
\* a missing event.
ForeignKeyViolation(enforced, event_id) ==
    enforced /\ ById(events, event_id) = {}

(* signup: query (48-50), insert and commit (59-60), refresh (61).           *)
signup_begin(slot, user_data) ==
    /\ Begin(slot)
    /\ IF SignupExisting(user_data) # {}
       THEN Finish(slot, Response("signup", 400, 0, 0, user_data,
                                  "Username or Email already exists."))
       ELSE Goto(slot, [pc |-> "signup_commit", user_data |-> user_data])
    /\ UNCHANGED <<users, events, guests, rsvps>>

signup_commit(slot) ==
    LET l == inflight[slot]
    IN  /\ Step(slot, "signup_commit")
        /\ LET user == [id |-> NextId(users),
                        username |-> l.user_data.username,
                        email |-> l.user_data.email,
                        hashed_password |-> hash_password(l.user_data.password)]
           IN  IF UniqueViolation(user)
               THEN /\ users' = users
                    /\ Finish(slot, Response("signup", 500, 0, 0, l.user_data,
                                             "Internal Server Error"))
               ELSE /\ users' = users \cup {user}
                    /\ Goto(slot, [pc |-> "signup_refresh",
                                   user_data |-> l.user_data, id |-> user.id])
        /\ UNCHANGED <<events, guests, rsvps>>

\* No route changes or deletes a user: the refresh finds the row inserted.
signup_refresh(slot) ==
    LET l == inflight[slot]
    IN  /\ Step(slot, "signup_refresh")
        /\ \E user \in ById(users, l.id) :
             Finish(slot, Response("signup", 200, 0, 0, l.user_data,
                                   UserOut(user)))
        /\ UNCHANGED <<users, events, guests, rsvps>>

(* create_event: insert and commit (89-90), refresh (91).                    *)
create_event_commit(slot, user, event_data) ==
    LET event == [id |-> NextId(events),
                  title |-> event_data.title,
                  description |-> event_data.description,
                  date |-> event_data.date,
                  location |-> event_data.location,
                  owner_id |-> user.id]
    IN  /\ Begin(slot)
        /\ NextId(events) <= MaxEvents
        /\ events' = events \cup {event}
        /\ Goto(slot, [pc |-> "create_event_refresh", user |-> user, id |-> event.id])
        /\ UNCHANGED <<users, guests, rsvps>>

create_event_refresh(slot) ==
    LET l == inflight[slot]
    IN  /\ Step(slot, "create_event_refresh")
        /\ \/ /\ ById(events, l.id) = {}
              /\ Finish(slot, ServerError("create_event", l.user.id, l.id))
           \/ \E event \in ById(events, l.id) :
                Finish(slot, Response("create_event", 200, l.user.id, l.id, None,
                                      EventOut(event)))
        /\ UNCHANGED <<users, events, guests, rsvps>>

(* update_event: lookup (127), assignments and commit (130-133), refresh     *)
(* (134).                                                                    *)
update_begin(slot, user, event_id, event_update) ==
    /\ Begin(slot)
    /\ \/ /\ OwnedEvent(event_id, user) = {}
          /\ Finish(slot, Response("update_event", 404, user.id, event_id, None,
                                   "Event not found"))
       \/ \E event \in OwnedEvent(event_id, user) :
            Goto(slot, [pc |-> "update_commit", user |-> user, event_id |-> event_id,
                        event_update |-> event_update, event |-> event])
    /\ UNCHANGED <<users, events, guests, rsvps>>

update_commit(slot) ==
    LET l == inflight[slot]
    IN  /\ Step(slot, "update_commit")
        /\ IF NetChange(l.event, l.event_update) = {}
           THEN /\ events' = events
                /\ Goto(slot, [l EXCEPT !.pc = "update_refresh"])
           ELSE IF ById(events, l.event.id) = {}
           THEN /\ events' = events
                /\ Finish(slot, ServerError("update_event", l.user.id, l.event_id))
           ELSE /\ events' = UpdateRow(events, l.event, l.event_update)
                /\ Goto(slot, [l EXCEPT !.pc = "update_refresh"])
        /\ UNCHANGED <<users, guests, rsvps>>

update_refresh(slot) ==
    LET l == inflight[slot]
    IN  /\ Step(slot, "update_refresh")
        /\ \/ /\ ById(events, l.event.id) = {}
              /\ Finish(slot, ServerError("update_event", l.user.id, l.event_id))
           \/ \E event \in ById(events, l.event.id) :
                Finish(slot, Response("update_event", 200, l.user.id, l.event_id,
                                      None, EventOut(event)))
        /\ UNCHANGED <<users, events, guests, rsvps>>

(* delete_event: lookup (145); db.delete(event) (148) loads event.guests and *)
(* event.rsvps, one query each, to cascade to them; commit (149) deletes the *)
(* loaded rows and the event by primary key.                                 *)
delete_begin(slot, user, event_id) ==
    /\ Begin(slot)
    /\ \/ /\ OwnedEvent(event_id, user) = {}
          /\ Finish(slot, Response("delete_event", 404, user.id, event_id, None,
                                   "Event not found"))
       \/ \E event \in OwnedEvent(event_id, user) :
            Goto(slot, [pc |-> "delete_cascade", user |-> user, event_id |-> event_id,
                        event |-> event, todo |-> {"guests", "rsvps"},
                        guests |-> {}, rsvps |-> {}])
    /\ UNCHANGED <<users, events, guests, rsvps>>

delete_cascade(slot) ==
    LET l == inflight[slot]
    IN  /\ Step(slot, "delete_cascade")
        /\ \E relationship \in l.todo :
             LET loaded == IF relationship = "guests"
                           THEN {g.id : g \in EventGuests(l.event)}
                           ELSE {r.id : r \in EventRsvps(l.event)}
                 left == l.todo \ {relationship}
             IN  Goto(slot, [l EXCEPT ![relationship] = loaded,
                                      !.todo = left,
                                      !.pc = IF left = {} THEN "delete_commit"
                                             ELSE "delete_cascade"])
        /\ UNCHANGED <<users, events, guests, rsvps>>

delete_commit(slot) ==
    LET l == inflight[slot]
        referencing == {g \in EventGuests(l.event) : g.id \notin l.guests}
                       \cup {r \in EventRsvps(l.event) : r.id \notin l.rsvps}
    IN  /\ Step(slot, "delete_commit")
        /\ \E enforced \in BOOLEAN :
             IF enforced /\ referencing # {} /\ ById(events, l.event.id) # {}
             THEN /\ UNCHANGED <<events, guests, rsvps>>
                  /\ Finish(slot, ServerError("delete_event", l.user.id, l.event_id))
             ELSE /\ events' = events \ ById(events, l.event.id)
                  /\ guests' = {g \in guests : g.id \notin l.guests}
                  /\ rsvps' = {r \in rsvps : r.id \notin l.rsvps}
                  /\ Finish(slot, Response("delete_event", 200, l.user.id, l.event_id,
                                           None, [detail |-> "Event deleted"]))
        /\ UNCHANGED users

(* add_guest: lookup (166), insert and commit (176-177), refresh (178).      *)
add_guest_begin(slot, user, event_id, guest) ==
    /\ Begin(slot)
    /\ \/ /\ OwnedEvent(event_id, user) = {}
          /\ Finish(slot, Response("add_guest", 404, user.id, event_id, None,
                                   "Event not found"))
       \/ \E event \in OwnedEvent(event_id, user) :
            Goto(slot, [pc |-> "add_guest_commit", user |-> user, event_id |-> event_id,
                        guest |-> guest, event |-> event])
    /\ UNCHANGED <<users, events, guests, rsvps>>

add_guest_commit(slot) ==
    LET l == inflight[slot]
        new_guest == [id |-> NextId(guests),
                      event_id |-> l.event.id,
                      name |-> l.guest.name,
                      email |-> l.guest.email,
                      invited_by_user_id |-> l.user.id,
                      responded |-> FALSE]
    IN  /\ Step(slot, "add_guest_commit")
        /\ NextId(guests) <= MaxGuests
        /\ \E enforced \in BOOLEAN :
             IF ForeignKeyViolation(enforced, l.event.id)
             THEN /\ guests' = guests
                  /\ Finish(slot, ServerError("add_guest", l.user.id, l.event_id))
             ELSE /\ guests' = guests \cup {new_guest}
                  /\ Goto(slot, [pc |-> "add_guest_refresh", user |-> l.user,
                                 event_id |-> l.event_id, id |-> new_guest.id])
        /\ UNCHANGED <<users, events, rsvps>>

add_guest_refresh(slot) ==
    LET l == inflight[slot]
    IN  /\ Step(slot, "add_guest_refresh")
        /\ \/ /\ ById(guests, l.id) = {}
              /\ Finish(slot, ServerError("add_guest", l.user.id, l.event_id))
           \/ \E new_guest \in ById(guests, l.id) :
                Finish(slot, Response("add_guest", 200, l.user.id, l.event_id, None,
                                      GuestOut(new_guest)))
        /\ UNCHANGED <<users, events, guests, rsvps>>

(* invite_guests: event lookup (208); one guest lookup per e-mail (213);     *)
(* commit (224); one refresh per guest created (226-227).                    *)
invite_begin(slot, user, event_id, invite_request) ==
    /\ Begin(slot)
    /\ IF OwnedEvent(event_id, user) = {}
       THEN Finish(slot, Response("invite_guests", 404, user.id, event_id, None,
                                  "Event not found"))
       ELSE Goto(slot, [pc |-> "invite_loop", user |-> user, event_id |-> event_id,
                        invite_request |-> invite_request,
                        todo |-> invite_request.guest_emails, pending |-> <<>>])
    /\ UNCHANGED <<users, events, guests, rsvps>>

\* One turn of the loop: the guest lookup of the next e-mail.
invite_lookup(slot) ==
    LET l == inflight[slot]
    IN  /\ Step(slot, "invite_loop")
        /\ l.todo # <<>>
        /\ LET email == Head(l.todo)
               new_guest == [event_id |-> l.event_id,
                             name |-> DefaultName(email),
                             email |-> email,
                             invited_by_user_id |-> l.user.id,
                             responded |-> FALSE]
           IN  IF InviteLookup(l.event_id, email, l.pending) = {}
               THEN Goto(slot, [l EXCEPT !.todo = Tail(@),
                                         !.pending = Append(@, new_guest)])
               ELSE Goto(slot, [l EXCEPT !.todo = Tail(@)])
        /\ UNCHANGED <<users, events, guests, rsvps>>

invite_commit(slot) ==
    LET l == inflight[slot]
        created == [i \in 1..Len(l.pending) |->
                       WithId(l.pending[i], MaxId(guests) + i)]
    IN  /\ Step(slot, "invite_loop")
        /\ l.todo = <<>>
        /\ MaxId(guests) + Len(l.pending) <= MaxGuests
        /\ IF l.pending = <<>>
           THEN /\ guests' = guests
                /\ Finish(slot, Response("invite_guests", 200, l.user.id, l.event_id,
                                         l.invite_request, <<>>))
           ELSE \E enforced \in BOOLEAN :
                  IF ForeignKeyViolation(enforced, l.event_id)
                  THEN /\ guests' = guests
                       /\ Finish(slot, ServerError("invite_guests", l.user.id,
                                                   l.event_id))
                  ELSE /\ guests' = guests \cup {created[i] : i \in 1..Len(created)}
                       /\ Goto(slot, [pc |-> "invite_refresh", user |-> l.user,
                                      event_id |-> l.event_id,
                                      invite_request |-> l.invite_request,
                                      ids |-> [i \in 1..Len(created) |-> created[i].id],
                                      out |-> <<>>])
        /\ UNCHANGED <<users, events, rsvps>>

\* db.refresh(g) of the next guest created.
invite_refresh(slot) ==
    LET l == inflight[slot]
    IN  /\ Step(slot, "invite_refresh")
        /\ LET id == l.ids[Len(l.out) + 1]
           IN  \/ /\ ById(guests, id) = {}
                  /\ Finish(slot, ServerError("invite_guests", l.user.id, l.event_id))
               \/ \E g \in ById(guests, id) :
                    LET out == Append(l.out, GuestOut(g))
                    IN  IF Len(out) = Len(l.ids)
                        THEN Finish(slot, Response("invite_guests", 200, l.user.id,
                                                   l.event_id, l.invite_request, out))
                        ELSE Goto(slot, [l EXCEPT !.out = out])
        /\ UNCHANGED <<users, events, guests, rsvps>>

(* rsvp_to_event: event lookup (245), guest lookup (250), RSVP lookup (255), *)
(* insert or assignment and commit (257-263, 266-267), refresh (264, 268).   *)
rsvp_begin(slot, user, event_id, rsvp) ==
    /\ Begin(slot)
    /\ \/ /\ {e \in events : e.id = event_id} = {}
          /\ Finish(slot, Response("rsvp_to_event", 404, user.id, event_id, None,
                                   "Event not found"))
       \/ \E event \in {e \in events : e.id = event_id} :
            Goto(slot, [pc |-> "rsvp_guest", user |-> user, event_id |-> event_id,
                        rsvp |-> rsvp, event |-> event])
    /\ UNCHANGED <<users, events, guests, rsvps>>

rsvp_guest(slot) ==
    LET l == inflight[slot]
    IN  /\ Step(slot, "rsvp_guest")
        /\ IF InvitedGuest(l.event_id, l.user) = {} /\ l.event.owner_id # l.user.id
           THEN Finish(slot, Response("rsvp_to_event", 403, l.user.id, l.event_id,
                                      None, "Must be invited or owner"))
           ELSE Goto(slot, [l EXCEPT !.pc = "rsvp_lookup"])
        /\ UNCHANGED <<users, events, guests, rsvps>>

rsvp_lookup(slot) ==
    LET l == inflight[slot]
    IN  /\ Step(slot, "rsvp_lookup")
        /\ \E rsvp_obj \in First(RsvpLookup(l.event_id, l.user)) :
             Goto(slot, [pc |-> "rsvp_commit", user |-> l.user,
                         event_id |-> l.event_id, rsvp |-> l.rsvp,
                         rsvp_obj |-> rsvp_obj])
        /\ UNCHANGED <<users, events, guests, rsvps>>

rsvp_commit(slot) ==
    LET l == inflight[slot]
        refresh(id) == [pc |-> "rsvp_refresh", user |-> l.user,
                        event_id |-> l.event_id, rsvp |-> l.rsvp,
                        rsvp_obj |-> l.rsvp_obj, id |-> id]
    IN  /\ Step(slot, "rsvp_commit")
        /\ IF l.rsvp_obj = {}
           THEN /\ NextId(rsvps) <= MaxRsvps
                /\ \E enforced \in BOOLEAN :
                     IF ForeignKeyViolation(enforced, l.event_id)
                     THEN /\ rsvps' = rsvps
                          /\ Finish(slot, ServerError("rsvp_to_event", l.user.id,
                                                      l.event_id))
                     ELSE /\ rsvps' = rsvps \cup
                               {[id |-> NextId(rsvps), event_id |-> l.event_id,
                                 user_id |-> l.user.id, status |-> l.rsvp.status]}
                          /\ Goto(slot, refresh(NextId(rsvps)))
           ELSE \E loaded \in l.rsvp_obj :
                  IF NetChange(loaded, l.rsvp) = {}
                  THEN /\ rsvps' = rsvps
                       /\ Goto(slot, refresh(loaded.id))
                  ELSE IF ById(rsvps, loaded.id) = {}
                  THEN /\ rsvps' = rsvps
                       /\ Finish(slot, ServerError("rsvp_to_event", l.user.id,
                                                   l.event_id))
                  ELSE /\ rsvps' = UpdateRow(rsvps, loaded, l.rsvp)
                       /\ Goto(slot, refresh(loaded.id))
        /\ UNCHANGED <<users, events, guests>>

rsvp_refresh(slot) ==
    LET l == inflight[slot]
    IN  /\ Step(slot, "rsvp_refresh")
        /\ \/ /\ ById(rsvps, l.id) = {}
              /\ Finish(slot, ServerError("rsvp_to_event", l.user.id, l.event_id))
           \/ \E row \in ById(rsvps, l.id) :
                Finish(slot, Response("rsvp_to_event", 200, l.user.id, l.event_id,
                                      [status |-> l.rsvp.status,
                                       rsvp_obj |-> l.rsvp_obj],
                                      RSVPOut(row)))
        /\ UNCHANGED <<users, events, guests, rsvps>>

(***************************************************************************)
(* Requests served one at a time, each to completion.                       *)
(***************************************************************************)
EventIds == 1..MaxEvents

Next ==
    \/ \E user_data \in Accounts : signup(user_data)
    \/ \E username \in Usernames, password \in LoginPasswords : login(username, password)
    \/ \E user \in users, event_data \in EventCreate : create_event(user, event_data)
    \/ \E user \in users, page \in Pages : list_events(user, page[1], page[2])
    \/ \E user \in users, event_id \in EventIds : get_event(user, event_id)
    \/ \E user \in users, event_id \in EventIds, event_update \in EventUpdate :
         update_event(user, event_id, event_update)
    \/ \E user \in users, event_id \in EventIds : delete_event(user, event_id)
    \/ \E user \in users, event_id \in EventIds, guest \in GuestCreate :
         add_guest(user, event_id, guest)
    \/ \E user \in users, event_id \in EventIds, invite_request \in InviteRequest :
         invite_guests(user, event_id, invite_request)
    \/ \E user \in users, event_id \in EventIds, rsvp \in RSVPCreate :
         rsvp_to_event(user, event_id, rsvp)

Spec == Init /\ [][Next]_vars

(***************************************************************************)
(* The auth routes alone, over every signup body.                           *)
(***************************************************************************)
NextAuth ==
    \/ \E user_data \in UserCreate : signup(user_data)
    \/ \E username \in Usernames, password \in LoginPasswords : login(username, password)

SpecAuth == Init /\ [][NextAuth]_vars

(***************************************************************************)
(* Signups served concurrently, over every signup body.                     *)
(***************************************************************************)
Slots == 1..MaxInflight

NextSignupConcurrent ==
    \/ \E slot \in Slots, user_data \in UserCreate : signup_begin(slot, user_data)
    \/ \E slot \in Slots : signup_commit(slot)
    \/ \E slot \in Slots : signup_refresh(slot)

SpecSignupConcurrent == Init /\ [][NextSignupConcurrent]_vars

(***************************************************************************)
(* Event, guest and RSVP requests served concurrently.                      *)
(***************************************************************************)
\* No field set, and an update that changes the title of the event.
Retitle == {<<>>, [title |-> "Gala"]}

NextConcurrent ==
    \/ \E slot \in Slots, user_data \in Accounts : signup_begin(slot, user_data)
    \/ \E slot \in Slots : signup_commit(slot)
    \/ \E slot \in Slots : signup_refresh(slot)
    \/ \E slot \in Slots, user \in users, event_data \in EventCreate :
         create_event_commit(slot, user, event_data)
    \/ \E slot \in Slots : create_event_refresh(slot)
    \/ \E slot \in Slots, user \in users, event_id \in EventIds,
          event_update \in Retitle :
         update_begin(slot, user, event_id, event_update)
    \/ \E slot \in Slots : update_commit(slot)
    \/ \E slot \in Slots : update_refresh(slot)
    \/ \E slot \in Slots, user \in users, event_id \in EventIds :
         delete_begin(slot, user, event_id)
    \/ \E slot \in Slots : delete_cascade(slot)
    \/ \E slot \in Slots : delete_commit(slot)
    \/ \E slot \in Slots, user \in users, event_id \in EventIds, guest \in GuestCreate :
         add_guest_begin(slot, user, event_id, guest)
    \/ \E slot \in Slots : add_guest_commit(slot)
    \/ \E slot \in Slots : add_guest_refresh(slot)
    \/ \E slot \in Slots, user \in users, event_id \in EventIds,
          invite_request \in InviteRequest :
         invite_begin(slot, user, event_id, invite_request)
    \/ \E slot \in Slots : invite_lookup(slot)
    \/ \E slot \in Slots : invite_commit(slot)
    \/ \E slot \in Slots : invite_refresh(slot)
    \/ \E slot \in Slots, user \in users, event_id \in EventIds, rsvp \in RSVPCreate :
         rsvp_begin(slot, user, event_id, rsvp)
    \/ \E slot \in Slots : rsvp_guest(slot)
    \/ \E slot \in Slots : rsvp_lookup(slot)
    \/ \E slot \in Slots : rsvp_commit(slot)
    \/ \E slot \in Slots : rsvp_refresh(slot)

SpecConcurrent == Init /\ [][NextConcurrent]_vars

(***************************************************************************)
(* Properties.                                                              *)
(***************************************************************************)
GuestsOf(rows, event_id) == {g \in rows : g.event_id = event_id}

RsvpsOf(rows, event_id) == {r \in rows : r.event_id = event_id}

RsvpsOfPair(rows, event_id, user_id) ==
    {r \in rows : r.event_id = event_id /\ r.user_id = user_id}

\* The step answers a request: one served alone, one in flight, or one
\* answered by its first query.
Answered ==
    \/ inflight' = inflight /\ started' = started
    \/ \E slot \in Slots : inflight[slot] # Idle /\ inflight'[slot] = Idle
    \/ inflight' = inflight /\ started' = started + 1

\* C1. Ownership isolation: when a user who does not own an existing event
\* calls get_event, update_event or delete_event on it, the response is 404
\* and the event, its guests and its RSVPs are as before; and an event never
\* appears in the list_events response of a user who does not own it.
C1_OwnershipIsolation ==
    [][\A e \in events :
         /\ (/\ last'.op \in {"get_event", "update_event", "delete_event"}
             /\ last'.event_id = e.id
             /\ last'.user # e.owner_id)
            => /\ last'.code = 404
               /\ e \in events'
               /\ GuestsOf(guests', e.id) = GuestsOf(guests, e.id)
               /\ RsvpsOf(rsvps', e.id) = RsvpsOf(rsvps, e.id)
         /\ (last'.op = "list_events" /\ last'.user # e.owner_id)
            => e \notin last'.body]_vars

\* A user was refused another user's event, which has guests and RSVPs.
C1_Witness ==
    /\ last.op \in {"get_event", "update_event", "delete_event"}
    /\ last.code = 404
    /\ \E e \in events :
         /\ e.id = last.event_id
         /\ e.owner_id # last.user
         /\ GuestsOf(guests, e.id) # {}
         /\ RsvpsOf(rsvps, e.id) # {}

\* C2. RSVP submit is an upsert per (event, user): after every successful
\* submission there is exactly one RSVP row of the pair, it holds the status
\* just submitted and is the row returned, and it keeps the id of the row the
\* pair had before, if any; and the rows of a pair change only by a
\* submission of that pair or by the deletion of the event.
C2_RsvpUpsert ==
    [][/\ (last'.op = "rsvp_to_event" /\ last'.code = 200)
          => LET before == RsvpsOfPair(rsvps, last'.event_id, last'.user)
                 after == RsvpsOfPair(rsvps', last'.event_id, last'.user)
             IN  /\ Cardinality(after) = 1
                 /\ \A r \in after :
                      /\ r.status = last'.req.status
                      /\ last'.body = r
                      /\ \A b \in before : b.id = r.id
       /\ \A event_id \in EventIds, u \in users :
            (/\ ~(/\ last'.op = "rsvp_to_event" /\ last'.code = 200
                  /\ last'.event_id = event_id /\ last'.user = u.id)
             /\ ~(/\ last'.op = "delete_event" /\ last'.code = 200
                  /\ last'.event_id = event_id))
            => RsvpsOfPair(rsvps', event_id, u.id) = RsvpsOfPair(rsvps, event_id, u.id)]_vars

\* A second submission overwrote the status of the pair's row and returned
\* the same id.
C2_Witness ==
    /\ last.op = "rsvp_to_event"
    /\ last.code = 200
    /\ \E old \in last.req.rsvp_obj :
         /\ old.status # last.req.status
         /\ old.id = last.body.id
    /\ RsvpsOfPair(rsvps, last.event_id, last.user) = {last.body}

\* C3. Batch invite is idempotent: when an event has at most one guest row
\* per e-mail (as it has with no guests, and keeps under invitations if the
\* claim holds), then after invite_guests there is exactly one guest row of
\* the event for every e-mail of the request.
C3_InviteIdempotent ==
    [][(/\ last'.op = "invite_guests"
        /\ last'.code = 200
        /\ \A g1, g2 \in GuestsOf(guests, last'.event_id) :
             g1.email = g2.email => g1 = g2)
       => \A i \in 1..Len(last'.req.guest_emails) :
            Cardinality({g \in GuestsOf(guests', last'.event_id) :
                            g.email = last'.req.guest_emails[i]}) = 1]_vars

\* C4. Signup uniqueness: every signup is answered 400 or 200.  One answered
\* 400 has a username or an e-mail that a user has, and leaves the users as
\* they were.  One answered 200 returns a user row with its username and
\* e-mail, which no other user has, and that row is the one user it added.
\* So a signup answered while another user has its username or e-mail gets
\* 400, and any other gets 200.  The users change only by one new user at a
\* time, and no two users ever share a username or an e-mail.
C4_SignupUniqueness ==
    /\ [][(last'.op = "signup" /\ Answered)
          => LET user_data == last'.req
             IN  IF last'.code = 200
                 THEN \E new \in users' :
                        /\ UserOut(new) = last'.body
                        /\ new.username = user_data.username
                        /\ new.email = user_data.email
                        /\ users' \in {users, users \cup {new}}
                        /\ \A u \in users' \ {new} :
                             /\ u.username # user_data.username
                             /\ u.email # user_data.email
                 ELSE /\ last'.code = 400
                      /\ users' = users
                      /\ \E u \in users : \/ u.username = user_data.username
                                            \/ u.email = user_data.email]_vars
    /\ [][users' # users
          => \E new \in users' : new \notin users /\ users' = users \cup {new}]_vars
    /\ [](\A u1, u2 \in users :
            (u1.username = u2.username \/ u1.email = u2.email) => u1 = u2)

\* C5. RSVP authorization: a submission on an existing event succeeds only
\* when the caller owns the event or the event has a guest row with the
\* caller's e-mail; any other submission answers 403 and leaves the RSVP rows
\* as they were; so the user of every RSVP row owns its event or is a guest
\* of it.
C5_RsvpAuthorization ==
    /\ [][last'.op = "rsvp_to_event"
          => \A e \in events, u \in users :
               (e.id = last'.event_id /\ u.id = last'.user)
               => LET allowed == \/ e.owner_id = u.id
                                 \/ \E g \in guests : /\ g.event_id = e.id
                                                       /\ g.email = u.email
                  IN  /\ last'.code = 200 => allowed
                      /\ ~allowed => (last'.code = 403 /\ rsvps' = rsvps)]_vars
    /\ [](\A r \in rsvps :
            \E e \in events, u \in users :
               /\ e.id = r.event_id
               /\ u.id = r.user_id
               /\ \/ e.owner_id = u.id
                  \/ \E g \in guests : g.event_id = e.id /\ g.email = u.email)

\* A user who neither owns the event nor is among its guests was refused,
\* and the event has a guest and an RSVP.
C5_Witness ==
    /\ last.op = "rsvp_to_event"
    /\ last.code = 403
    /\ GuestsOf(guests, last.event_id) # {}
    /\ RsvpsOf(rsvps, last.event_id) # {}

\* C6. Login/token round trip: a login with a registered username and its
\* password answers 200 with a token whose subject is the user's id and
\* which get_current_user resolves to that user's row; any other login
\* answers 401 without a token.
C6_LoginTokenRoundTrip ==
    last.op = "login"
    => LET matching == {u \in users :
                          /\ u.username = last.req.username
                          /\ u.hashed_password = hash_password(last.req.password)}
       IN  IF matching # {}
           THEN /\ last.code = 200
                /\ \A u \in matching :
                     /\ last.body.access_token.claims.sub[2] = u.id
                     /\ get_current_user(last.body.access_token) = {u}
           ELSE last.code = 401 /\ last.body = "Incorrect username or password"

\* C7. Batch invite response: for every e-mail of the request, the response
\* holds the guest row of the event with that e-mail.
C7_InviteResponse ==
    [][(last'.op = "invite_guests" /\ last'.code = 200)
       => \A i \in 1..Len(last'.req.guest_emails) :
            \E j \in 1..Len(last'.body) :
               /\ last'.body[j].email = last'.req.guest_emails[i]
               /\ last'.body[j].event_id = last'.event_id
               /\ \E g \in guests' : GuestOut(g) = last'.body[j]]_vars

\* C8. Cascade and referential integrity: a successful delete_event removes
\* the event, every guest row and every RSVP row of it, and no other guest or
\* RSVP row; and every guest row and every RSVP row references an event that
\* exists.
C8_CascadeIntegrity ==
    /\ [][(last'.op = "delete_event" /\ last'.code = 200)
          => /\ \A e \in events' : e.id # last'.event_id
             /\ guests' = guests \ GuestsOf(guests, last'.event_id)
             /\ rsvps' = rsvps \ RsvpsOf(rsvps, last'.event_id)]_vars
    /\ [](/\ \A g \in guests : \E e \in events : e.id = g.event_id
          /\ \A r \in rsvps : \E e \in events : e.id = r.event_id)

\* An event was deleted while another event, with a guest and an RSVP of its
\* own, stays.
C8_Witness ==
    /\ last.op = "delete_event"
    /\ last.code = 200
    /\ \E e \in events :
         /\ e.id # last.event_id
         /\ GuestsOf(guests, e.id) # {}
         /\ RsvpsOf(rsvps, e.id) # {}

\* C9. RSVP row uniqueness under concurrency: at most one RSVP row per
\* (event_id, user_id) pair.
C9_RsvpUniqueConcurrent ==
    \A r1, r2 \in rsvps :
       (r1.event_id = r2.event_id /\ r1.user_id = r2.user_id) => r1 = r2

\* C10. RSVP status domain: the status of every RSVP row is one of accepted,
\* declined, maybe.
C10_RsvpStatusDomain ==
    \A r \in rsvps : r.status \in RSVPStatuses

====
